---- MODULE Spec2Model ----
(***************************************************************************)
(* Model of src/loaders.py: the four document loaders (AudioLoader,        *)
(* TextDocumentLoader, WebpageLoader, YoutubeTranscriptLoader).            *)
(*                                                                         *)
(* A Python str is a sequence of one-character strings; a literal of the   *)
(* source is kept as one element.  Every external collaborator (pytube,    *)
(* youtube_transcript_api, gemini, langchain loaders, the file system) is  *)
(* an input of the call: its outcome is drawn from a bounded set, and the  *)
(* call log of a load records each external call with the outcome it got.  *)
(***************************************************************************)
EXTENDS Integers, Sequences, FiniteSets, TLC

VARIABLES yt, web, sink, lastContent, audio, text

vars == <<yt, web, sink, lastContent, audio, text>>

(* ------------------------------ bounds -------------------------------- *)
MaxSegs == 2        \* segments a caption track may fetch
MaxOut == 3         \* characters of a translator response
MaxPage == 3        \* characters of a fetched web page
MaxDocs == 1        \* documents a langchain loader may produce

(* ------------------------------ strings ------------------------------- *)
NL == "\n"
SP == " "

StrUpTo(alphabet, n) == UNION {[1..k -> alphabet] : k \in 0..n}

\* str.isspace() on the characters the model uses
IsSpace(c) == c \in {SP, NL}

RECURSIVE LStrip(_)
LStrip(s) == IF s # <<>> /\ IsSpace(Head(s)) THEN LStrip(Tail(s)) ELSE s

RECURSIVE RStrip(_)
RStrip(s) ==
    IF s # <<>> /\ IsSpace(s[Len(s)]) THEN RStrip(SubSeq(s, 1, Len(s) - 1)) ELSE s

\* str.strip()
Strip(s) == RStrip(LStrip(s))

\* str.split('\n'): always at least one piece
RECURSIVE SplitLines(_)
SplitLines(s) ==
    IF \E i \in 1..Len(s) : s[i] = NL
      THEN LET i == CHOOSE j \in 1..Len(s) :
                        s[j] = NL /\ \A k \in 1..(j - 1) : s[k] # NL
           IN <<SubSeq(s, 1, i - 1)>> \o SplitLines(SubSeq(s, i + 1, Len(s)))
      ELSE <<s>>

\* ' '.join(parts)
RECURSIVE JoinSpace(_)
JoinSpace(parts) ==
    IF parts = <<>> THEN <<>>
    ELSE IF Len(parts) = 1 THEN parts[1]
    ELSE parts[1] \o <<SP>> \o JoinSpace(Tail(parts))

\* str.startswith(prefix) / str.endswith(suffix)
StartsWith(s, p) == Len(s) >= Len(p) /\ SubSeq(s, 1, Len(p)) = p
EndsWith(s, p) == Len(s) >= Len(p) /\ SubSeq(s, Len(s) - Len(p) + 1, Len(s)) = p

\* [entry['text'] for entry in transcript]
EntryTexts(transcript) == [i \in 1..Len(transcript) |-> transcript[i].text]

(* --------------------------- optional values -------------------------- *)
None == [some |-> FALSE]
Some(v) == [some |-> TRUE, val |-> v]

\* Python truthiness of "None or a list"
Truthy(opt) == opt.some /\ opt.val # <<>>

(* ------------------------------ errors -------------------------------- *)
Raise(type, msg) == [kind |-> "raise", type |-> type, msg |-> msg]
Return(value) == [kind |-> "return", value |-> value]

\* one external call in the log of a load: operation, argument, outcome
Call(op, arg, out) == [op |-> op, arg |-> arg, out |-> out]

Idle == [state |-> "idle"]

\* the caller is synchronous: a load starts only when no load is in flight
NoLoadInFlight == yt = Idle /\ web = Idle /\ audio = Idle /\ text = Idle

(* ======================= YoutubeTranscriptLoader ====================== *)
Languages == {"en", "ja", "ko", "zh"}
Tracks == [language_code : Languages, is_generated : BOOLEAN]

PreferredLanguages == <<"en">>
GeneratedLanguages == <<"en", "ja", "ko", "es", "fr", "de", "hi">>
PromptPrefix == <<"Translate the following transcript into English:", NL>>
NoTranscriptMsg == <<"No transcript available">>
InvalidYoutubeMsg == <<"Invalid YouTube URL">>

WellFormedUrl == <<"https://youtu.be/", "T-D1OfcDW1M">>
VideoUrls == {WellFormedUrl, <<"not a video url">>}

\* outcomes of extract.video_id(url): the identifier of a well-formed URL;
\* for any other URL the extractor raises or yields nothing
ExtractOutcomes(url) ==
    IF url = WellFormedUrl
      THEN {[ok |-> TRUE, id |-> <<"T-D1OfcDW1M">>]}
      ELSE {[ok |-> TRUE, id |-> <<>>], [ok |-> FALSE, exc |-> "RegexMatchError"]}

\* outcomes of YouTubeTranscriptApi.list_transcripts(video_id)
ListOutcomes ==
    {[ok |-> TRUE, tracks |-> ts] : ts \in SUBSET Tracks}
    \cup {[ok |-> FALSE, exc |-> e] :
            e \in {"TranscriptsDisabled", "NoTranscriptFound", "RequestException"}}

\* a caption segment as the caption service produces it
SegTexts == StrUpTo({"a", "b"}, 1)
Segment(t, i) == [text |-> t, start |-> i - 1, duration |-> 1]
SegmentSeqs ==
    UNION {{[i \in 1..k |-> Segment(ts[i], i)] : ts \in [1..k -> SegTexts]} :
             k \in 0..MaxSegs}

\* outcomes of Transcript.fetch(): the segments, or a request or parse error
\* (fetch does not raise NoTranscriptFound, which only the searches raise)
FetchOutcomes ==
    {[ok |-> TRUE, segs |-> s] : s \in SegmentSeqs}
    \cup {[ok |-> FALSE, exc |-> "YouTubeRequestFailed"]}

\* outcomes of gemini.generate_content(prompt) followed by response.text
GenOutcomes ==
    {[ok |-> TRUE, text |-> t] : t \in StrUpTo({"a", SP, NL}, MaxOut)}
    \cup {[ok |-> FALSE, exc |-> "GenerationError"]}

YtEnvs(url) ==
    [extract : ExtractOutcomes(url), list : ListOutcomes,
     fetch : FetchOutcomes, gen : GenOutcomes]

\* TranscriptList.find_transcript(codes): for each code in order, the
\* manually created track first, then the generated one
RECURSIVE find_transcript(_, _)
find_transcript(tracks, codes) ==
    IF codes = <<>> THEN None
    ELSE LET manual == [language_code |-> Head(codes), is_generated |-> FALSE]
             generated == [language_code |-> Head(codes), is_generated |-> TRUE]
         IN IF manual \in tracks THEN Some(manual)
            ELSE IF generated \in tracks THEN Some(generated)
            ELSE find_transcript(tracks, Tail(codes))

\* TranscriptList.find_generated_transcript(codes): generated tracks only
RECURSIVE find_generated_transcript(_, _)
find_generated_transcript(tracks, codes) ==
    IF codes = <<>> THEN None
    ELSE LET generated == [language_code |-> Head(codes), is_generated |-> TRUE]
         IN IF generated \in tracks THEN Some(generated)
            ELSE find_generated_transcript(tracks, Tail(codes))

\* the lines of the response kept by "if line.strip()"
NonBlankLines(lines) == SelectSeq(lines, LAMBDA line : Strip(line) # <<>>)

\* mutant: blank lines of the response are kept
_translate_transcript_keeps_blank(transcript, env) ==
    LET full_text == JoinSpace(EntryTexts(transcript))
        prompt == PromptPrefix \o full_text
        calls == <<Call("generate_content", prompt, env.gen)>>
    IN IF env.gen.ok
         THEN LET translated_text == Strip(env.gen.text)
                  lines == SplitLines(translated_text)
              IN [ret |-> Some([i \in 1..Len(lines) |-> [text |-> lines[i]]]),
                  calls |-> calls]
         ELSE [ret |-> None, calls |-> calls]

\* mutant: a translation failure yields an empty list instead of None
_translate_transcript_empty_on_error(transcript, env) ==
    LET full_text == JoinSpace(EntryTexts(transcript))
        prompt == PromptPrefix \o full_text
        calls == <<Call("generate_content", prompt, env.gen)>>
    IN IF env.gen.ok
         THEN LET translated_text == Strip(env.gen.text)
                  lines == NonBlankLines(SplitLines(translated_text))
              IN [ret |-> Some([i \in 1..Len(lines) |-> [text |-> lines[i]]]),
                  calls |-> calls]
         ELSE [ret |-> Some(<<>>), calls |-> calls]

_translate_transcript(transcript, env) ==
    LET full_text == JoinSpace(EntryTexts(transcript))
        prompt == PromptPrefix \o full_text
        calls == <<Call("generate_content", prompt, env.gen)>>
    IN IF env.gen.ok
         THEN LET translated_text == Strip(env.gen.text)
                  lines == NonBlankLines(SplitLines(translated_text))
              IN [ret |-> Some([i \in 1..Len(lines) |-> [text |-> lines[i]]]),
                  calls |-> calls]
         ELSE [ret |-> None, calls |-> calls]

\* mutant: the fallback searches tracks of any origin
_handle_non_english_transcript_any_origin(tracks, env) ==
    LET available_transcript == find_transcript(tracks, GeneratedLanguages)
    IN IF ~available_transcript.some
         THEN [ret |-> None, calls |-> <<>>]
         ELSE LET fetch == <<Call("fetch", available_transcript.val, env.fetch)>>
              IN IF env.fetch.ok
                   THEN LET t == _translate_transcript(env.fetch.segs, env)
                        IN [ret |-> t.ret, calls |-> fetch \o t.calls]
                   ELSE [ret |-> None, calls |-> fetch]

_handle_non_english_transcript(tracks, env) ==
    LET available_transcript == find_generated_transcript(tracks, GeneratedLanguages)
    IN IF ~available_transcript.some
         THEN [ret |-> None, calls |-> <<>>]
         ELSE LET fetch == <<Call("fetch", available_transcript.val, env.fetch)>>
              IN IF env.fetch.ok
                   THEN LET t == _translate_transcript(env.fetch.segs, env)
                        IN [ret |-> t.ret, calls |-> fetch \o t.calls]
                   ELSE [ret |-> None, calls |-> fetch]

\* mutant: the English lookup is skipped, every track goes through the fallback
_fetch_transcript_skips_preferred(video_id, env) ==
    LET list == <<Call("list_transcripts", video_id, env.list)>>
    IN IF ~env.list.ok
         THEN [ret |-> None, calls |-> list]
         ELSE LET h == _handle_non_english_transcript(env.list.tracks, env)
              IN [ret |-> h.ret, calls |-> list \o h.calls]

\* mutant: a failed fetch of the English track falls back like NoTranscriptFound
_fetch_transcript_falls_back_on_error(video_id, env) ==
    LET list == <<Call("list_transcripts", video_id, env.list)>>
    IN IF ~env.list.ok
         THEN [ret |-> None, calls |-> list]
         ELSE LET transcript == find_transcript(env.list.tracks, PreferredLanguages)
                  h == _handle_non_english_transcript(env.list.tracks, env)
              IN IF transcript.some /\ env.fetch.ok
                   THEN [ret |-> Some(env.fetch.segs),
                         calls |-> list \o <<Call("fetch", transcript.val, env.fetch)>>]
                   ELSE IF transcript.some
                   THEN [ret |-> h.ret,
                         calls |-> list \o <<Call("fetch", transcript.val, env.fetch)>>
                                        \o h.calls]
                   ELSE [ret |-> h.ret, calls |-> list \o h.calls]

_fetch_transcript(video_id, env) ==
    LET list == <<Call("list_transcripts", video_id, env.list)>>
    IN IF ~env.list.ok
         THEN [ret |-> None, calls |-> list]
         ELSE LET transcript == find_transcript(env.list.tracks, PreferredLanguages)
              IN IF transcript.some
                   THEN [ret |-> IF env.fetch.ok THEN Some(env.fetch.segs) ELSE None,
                         calls |-> list \o <<Call("fetch", transcript.val, env.fetch)>>]
                   ELSE LET h == _handle_non_english_transcript(env.list.tracks, env)
                        IN [ret |-> h.ret, calls |-> list \o h.calls]

_get_video_id(url, env) ==
    [ret |-> IF env.extract.ok THEN Some(env.extract.id) ELSE None,
     calls |-> <<Call("video_id", url, env.extract)>>]

\* mutant: only a None identifier is rejected ("is None" for "not")
YoutubeLoaderLoad_id_is_none(video_url, env) ==
    LET video_id == _get_video_id(video_url, env)
    IN IF ~video_id.ret.some
         THEN [state |-> "done", url |-> video_url, fetched |-> None,
               calls |-> video_id.calls,
               result |-> Raise("DocumentLoaderError", InvalidYoutubeMsg)]
         ELSE LET transcript == _fetch_transcript(video_id.ret.val, env)
                  calls == video_id.calls \o transcript.calls
              IN IF ~Truthy(transcript.ret)
                   THEN [state |-> "done", url |-> video_url,
                         fetched |-> transcript.ret, calls |-> calls,
                         result |-> Raise("TranscriptionError", NoTranscriptMsg)]
                   ELSE [state |-> "done", url |-> video_url,
                         fetched |-> transcript.ret, calls |-> calls,
                         result |-> Return([transcript |->
                             JoinSpace(EntryTexts(transcript.ret.val))])]

\* mutant: only a None transcript is rejected ("is None" for "not")
YoutubeLoaderLoad_transcript_is_none(video_url, env) ==
    LET video_id == _get_video_id(video_url, env)
    IN IF ~Truthy(video_id.ret)
         THEN [state |-> "done", url |-> video_url, fetched |-> None,
               calls |-> video_id.calls,
               result |-> Raise("DocumentLoaderError", InvalidYoutubeMsg)]
         ELSE LET transcript == _fetch_transcript(video_id.ret.val, env)
                  calls == video_id.calls \o transcript.calls
              IN IF ~transcript.ret.some
                   THEN [state |-> "done", url |-> video_url,
                         fetched |-> transcript.ret, calls |-> calls,
                         result |-> Raise("TranscriptionError", NoTranscriptMsg)]
                   ELSE [state |-> "done", url |-> video_url,
                         fetched |-> transcript.ret, calls |-> calls,
                         result |-> Return([transcript |->
                             JoinSpace(EntryTexts(transcript.ret.val))])]

YoutubeLoaderLoad(video_url, env) ==
    LET video_id == _get_video_id(video_url, env)
    IN IF ~Truthy(video_id.ret)
         THEN [state |-> "done", url |-> video_url, fetched |-> None,
               calls |-> video_id.calls,
               result |-> Raise("DocumentLoaderError", InvalidYoutubeMsg)]
         ELSE LET transcript == _fetch_transcript(video_id.ret.val, env)
                  calls == video_id.calls \o transcript.calls
              IN IF ~Truthy(transcript.ret)
                   THEN [state |-> "done", url |-> video_url,
                         fetched |-> transcript.ret, calls |-> calls,
                         result |-> Raise("TranscriptionError", NoTranscriptMsg)]
                   ELSE [state |-> "done", url |-> video_url,
                         fetched |-> transcript.ret, calls |-> calls,
                         result |-> Return([transcript |->
                             JoinSpace(EntryTexts(transcript.ret.val))])]

\* youtube_loader.load(url): one whole call
YoutubeLoad ==
    /\ NoLoadInFlight
    /\ \E url \in VideoUrls : \E env \in YtEnvs(url) : yt' = YoutubeLoaderLoad(url, env)
    /\ UNCHANGED <<web, sink, lastContent, audio, text>>

\* the caller takes the result (or the exception) and goes on
YoutubeDone ==
    /\ yt # Idle
    /\ yt' = Idle
    /\ UNCHANGED <<web, sink, lastContent, audio, text>>

(* ============================ WebpageLoader =========================== *)
Http == <<"h", "t", "t", "p", ":", "/", "/">>
Https == <<"h", "t", "t", "p", "s", ":", "/", "/">>
WebUrls ==
    {Http \o <<"a">>, Https \o <<"a">>, <<"f", "t", "p", ":", "/", "/", "a">>,
     <<"h", "t", "t", "p", ":", "/">>, <<>>}
InvalidUrlMsg == <<"Invalid URL format">>
IndexErrorMsg == <<"list index out of range">>

\* str(e) of a failing collaborator
ErrMsgs == {<<"timed out">>}
Failure(msg) == [ok |-> FALSE, msg |-> msg]
Failures == {Failure(m) : m \in ErrMsgs}

Pages == StrUpTo({"a", SP}, MaxPage)
DocSeqs(contents) == UNION {[1..k -> contents] : k \in 0..MaxDocs}

\* outcomes of WebBaseLoader(url).load(): the page_content of each document
WebFetchOutcomes == {[ok |-> TRUE, docs |-> d] : d \in DocSeqs(Pages)} \cup Failures

\* outcomes of open("output.txt", "w")
OpenOutcomes == {[ok |-> TRUE]} \cup Failures

\* outcomes of the two writes and the close of the with block: on failure
\* `kept` characters of what was written have reached the file
WriteOutcomes ==
    {[ok |-> TRUE]}
    \cup {[ok |-> FALSE, msg |-> m, kept |-> k] : m \in ErrMsgs, k \in 0..(MaxPage + 2)}

WebEnvs == [fetch : WebFetchOutcomes, open : OpenOutcomes, write : WriteOutcomes]

Min(a, b) == IF a < b THEN a ELSE b

WebError(e) == Raise("DocumentLoaderError", <<"Error loading webpage: ">> \o e)

\* mutant: any URL starting with "http" is accepted
WebpageLoaderLoad_loose_scheme(url, env, file) ==
    IF ~StartsWith(url, <<"h", "t", "t", "p">>)
      THEN [calls |-> <<>>, file |-> file,
            result |-> Raise("DocumentLoaderError", InvalidUrlMsg)]
      ELSE LET load == <<Call("WebBaseLoader.load", url, env.fetch)>>
           IN IF ~env.fetch.ok
                THEN [calls |-> load, file |-> file,
                      result |-> WebError(env.fetch.msg)]
                ELSE IF env.fetch.docs = <<>>
                THEN [calls |-> load, file |-> file,
                      result |-> WebError(IndexErrorMsg)]
                ELSE LET content == Strip(env.fetch.docs[1])
                         data == content \o <<NL, NL>>
                         open == <<Call("open", <<"output.txt">>, env.open)>>
                         write == <<Call("write", data, env.write)>>
                     IN IF ~env.open.ok
                          THEN [calls |-> load \o open,
                                file |-> file, result |-> WebError(env.open.msg)]
                          ELSE IF ~env.write.ok
                          THEN [calls |-> load \o open \o write,
                                file |-> SubSeq(data, 1, Min(env.write.kept, Len(data))),
                                result |-> WebError(env.write.msg)]
                          ELSE [calls |-> load \o open \o write, file |-> data,
                                result |-> Return([content |-> content])]

\* mutant: the sink is opened in append mode
WebpageLoaderLoad_append(url, env, file) ==
    IF ~(StartsWith(url, Http) \/ StartsWith(url, Https))
      THEN [calls |-> <<>>, file |-> file,
            result |-> Raise("DocumentLoaderError", InvalidUrlMsg)]
      ELSE LET load == <<Call("WebBaseLoader.load", url, env.fetch)>>
           IN IF ~env.fetch.ok
                THEN [calls |-> load, file |-> file,
                      result |-> WebError(env.fetch.msg)]
                ELSE IF env.fetch.docs = <<>>
                THEN [calls |-> load, file |-> file,
                      result |-> WebError(IndexErrorMsg)]
                ELSE LET content == Strip(env.fetch.docs[1])
                         data == content \o <<NL, NL>>
                         open == <<Call("open", <<"output.txt">>, env.open)>>
                         write == <<Call("write", data, env.write)>>
                     IN IF ~env.open.ok
                          THEN [calls |-> load \o open,
                                file |-> file, result |-> WebError(env.open.msg)]
                          ELSE IF ~env.write.ok
                          THEN [calls |-> load \o open \o write,
                                file |-> file \o SubSeq(data, 1, Min(env.write.kept, Len(data))),
                                result |-> WebError(env.write.msg)]
                          ELSE [calls |-> load \o open \o write, file |-> file \o data,
                                result |-> Return([content |-> content])]

\* `file` is the content of output.txt before the call
WebpageLoaderLoad(url, env, file) ==
    IF ~(StartsWith(url, Http) \/ StartsWith(url, Https))
      THEN [calls |-> <<>>, file |-> file,
            result |-> Raise("DocumentLoaderError", InvalidUrlMsg)]
      ELSE LET load == <<Call("WebBaseLoader.load", url, env.fetch)>>
           IN IF ~env.fetch.ok
                THEN [calls |-> load, file |-> file,
                      result |-> WebError(env.fetch.msg)]
                ELSE IF env.fetch.docs = <<>>
                THEN [calls |-> load, file |-> file,
                      result |-> WebError(IndexErrorMsg)]
                ELSE LET content == Strip(env.fetch.docs[1])
                         data == content \o <<NL, NL>>
                         open == <<Call("open", <<"output.txt">>, env.open)>>
                         write == <<Call("write", data, env.write)>>
                     IN IF ~env.open.ok
                          THEN [calls |-> load \o open,
                                file |-> file, result |-> WebError(env.open.msg)]
                          ELSE IF ~env.write.ok
                          THEN [calls |-> load \o open \o write,
                                file |-> SubSeq(data, 1, Min(env.write.kept, Len(data))),
                                result |-> WebError(env.write.msg)]
                          ELSE [calls |-> load \o open \o write, file |-> data,
                                result |-> Return([content |-> content])]

\* webpage_loader.load(url): one whole call
WebpageLoad ==
    /\ NoLoadInFlight
    /\ \E url \in WebUrls, env \in WebEnvs :
         LET r == WebpageLoaderLoad(url, env, sink)
         IN /\ web' = [state |-> "done", url |-> url, calls |-> r.calls,
                       result |-> r.result]
            /\ sink' = r.file
            /\ lastContent' = IF r.result.kind = "return"
                                THEN Some(r.result.value.content) ELSE lastContent
    /\ UNCHANGED <<yt, audio, text>>

WebpageDone ==
    /\ web # Idle
    /\ web' = Idle
    /\ UNCHANGED <<yt, sink, lastContent, audio, text>>

(* ============================= AudioLoader ============================ *)
AudioPaths == {<<"talk.mp3">>}
Transcripts == StrUpTo({"a"}, 1)
AudioDocs == [page_content : Transcripts, metadata : {<<"meta">>}]

\* outcomes of AssemblyAIAudioTranscriptLoader(...).load()
TranscribeOutcomes == {[ok |-> TRUE, docs |-> d] : d \in DocSeqs(AudioDocs)} \cup Failures

AudioError(e) == Raise("DocumentLoaderError", <<"Error transcribing audio: ">> \o e)

\* mutant: docs[0] is read outside the try block
AudioLoaderLoad_unwrapped_index(file_path, env) ==
    LET load == <<Call("AssemblyAIAudioTranscriptLoader.load", file_path, env)>>
    IN IF ~env.ok
         THEN [state |-> "done", path |-> file_path, calls |-> load,
               result |-> AudioError(env.msg)]
         ELSE IF env.docs = <<>>
         THEN [state |-> "done", path |-> file_path, calls |-> load,
               result |-> Raise("IndexError", IndexErrorMsg)]
         ELSE [state |-> "done", path |-> file_path, calls |-> load,
               result |-> Return([text |-> env.docs[1].page_content,
                                  metadata |-> env.docs[1].metadata])]

AudioLoaderLoad(file_path, env) ==
    LET load == <<Call("AssemblyAIAudioTranscriptLoader.load", file_path, env)>>
    IN IF ~env.ok
         THEN [state |-> "done", path |-> file_path, calls |-> load,
               result |-> AudioError(env.msg)]
         ELSE IF env.docs = <<>>
         THEN [state |-> "done", path |-> file_path, calls |-> load,
               result |-> AudioError(IndexErrorMsg)]
         ELSE [state |-> "done", path |-> file_path, calls |-> load,
               result |-> Return([text |-> env.docs[1].page_content,
                                  metadata |-> env.docs[1].metadata])]

AudioLoad ==
    /\ NoLoadInFlight
    /\ \E file_path \in AudioPaths, env \in TranscribeOutcomes :
         audio' = AudioLoaderLoad(file_path, env)
    /\ UNCHANGED <<yt, web, sink, lastContent, text>>

AudioDone ==
    /\ audio # Idle
    /\ audio' = Idle
    /\ UNCHANGED <<yt, web, sink, lastContent, text>>

(* ========================== TextDocumentLoader ======================== *)
PdfSuffix == <<".", "p", "d", "f">>
DocPaths == {<<"a">> \o PdfSuffix, <<"a", ".", "t", "x", "t">>, <<"p", "d", "f">>, PdfSuffix}
DocUnits == {<<"p">>, <<"q">>}

\* outcomes of PyPDFLoader(path).load_and_split() and of TextLoader(path).load()
ParseOutcomes == {[ok |-> TRUE, docs |-> d] : d \in DocSeqs(DocUnits)} \cup Failures

TextError(e) == Raise("DocumentLoaderError", <<"Error loading document: ">> \o e)

_load_pdf(file_path, env) ==
    LET load == <<Call("PyPDFLoader.load_and_split", file_path, env)>>
    IN IF env.ok
         THEN [exc |-> None, calls |-> load,
               ret |-> [pages |-> env.docs, page_count |-> Len(env.docs)]]
         ELSE [exc |-> Some(env.msg), calls |-> load]

_load_text(file_path, env) ==
    LET load == <<Call("TextLoader.load", file_path, env)>>
    IN IF env.ok
         THEN [exc |-> None, calls |-> load, ret |-> [content |-> env.docs]]
         ELSE [exc |-> Some(env.msg), calls |-> load]

TextDocumentLoaderLoad(file_path, env) ==
    LET r == IF EndsWith(file_path, PdfSuffix)
               THEN _load_pdf(file_path, env) ELSE _load_text(file_path, env)
    IN [state |-> "done", path |-> file_path, calls |-> r.calls,
        result |-> IF r.exc.some THEN TextError(r.exc.val) ELSE Return(r.ret)]

TextLoad ==
    /\ NoLoadInFlight
    /\ \E file_path \in DocPaths, env \in ParseOutcomes :
         text' = TextDocumentLoaderLoad(file_path, env)
    /\ UNCHANGED <<yt, web, sink, lastContent, audio>>

TextDone ==
    /\ text # Idle
    /\ text' = Idle
    /\ UNCHANGED <<yt, web, sink, lastContent, audio>>

Init ==
    /\ yt = Idle
    /\ web = Idle
    /\ sink = <<>>
    /\ lastContent = None
    /\ audio = Idle
    /\ text = Idle

NextYoutube == YoutubeLoad \/ YoutubeDone
SpecYoutube == Init /\ [][NextYoutube]_vars

NextLoaders ==
    AudioLoad \/ AudioDone \/ TextLoad \/ TextDone \/ WebpageLoad \/ WebpageDone
SpecLoaders == Init /\ [][NextLoaders]_vars
(* ======================= properties: YouTube loader =================== *)
YtDone == yt.state = "done"
YtCalls(op) == {yt.calls[i] : i \in {j \in 1..Len(yt.calls) : yt.calls[j].op = op}}
YtCount(op) == Cardinality({j \in 1..Len(yt.calls) : yt.calls[j].op = op})

\* a video identifier was extracted
IdExtracted == YtDone /\ yt.calls[1].out.ok /\ yt.calls[1].out.id # <<>>
\* the caption listing succeeded
Listed == IdExtracted /\ \E c \in YtCalls("list_transcripts") : c.out.ok
ListedTracks == (CHOOSE c \in YtCalls("list_transcripts") : TRUE).out.tracks
HasEnglish == Listed /\ \E t \in ListedTracks : t.language_code = "en"
TranslatableLanguages == {"ja", "ko", "es", "fr", "de", "hi"}
HasTranslatable ==
    /\ Listed
    /\ \A t \in ListedTracks : t.language_code # "en"
    /\ \E t \in ListedTracks : t.is_generated /\ t.language_code \in TranslatableLanguages
NoTranscript == Raise("TranscriptionError", NoTranscriptMsg)

\* C1 (as stated): a video whose listing has an 'en' track always makes load
\* return the joined texts of that track's segments, without translation.
C1_Original ==
    HasEnglish =>
        /\ YtCount("generate_content") = 0
        /\ yt.result.kind = "return"
        /\ \E f \in YtCalls("fetch") :
             /\ f.arg.language_code = "en"
             /\ f.out.ok
             /\ yt.result.value.transcript = JoinSpace(EntryTexts(f.out.segs))

\* C1 (amended): with an 'en' track listed, the translator is never invoked
\* and exactly one track, an 'en' one, is fetched; load returns the joined
\* texts of its segments when the fetch succeeds with at least one segment
\* and raises TranscriptionError("No transcript available") otherwise.
C1_EnglishTrack ==
    HasEnglish =>
        /\ YtCount("generate_content") = 0
        /\ YtCount("fetch") = 1
        /\ \A f \in YtCalls("fetch") :
             /\ f.arg.language_code = "en"
             /\ f.arg \in ListedTracks
             /\ IF f.out.ok /\ f.out.segs # <<>>
                  THEN yt.result =
                         Return([transcript |-> JoinSpace(EntryTexts(f.out.segs))])
                  ELSE yt.result = NoTranscript

C1_Witness ==
    /\ HasEnglish
    /\ yt.result.kind = "return"
    /\ yt.result.value.transcript = <<"a", SP, "b">>
    /\ \E t \in ListedTracks : t.language_code = "ja" /\ t.is_generated

\* the segments load built its result from are exactly the non-blank lines
\* of the translator output `out`, each carrying only a 'text' field
BuiltFromLines(out) ==
    /\ yt.fetched.some
    /\ Len(yt.fetched.val) = Len(NonBlankLines(SplitLines(Strip(out))))
    /\ \A i \in 1..Len(yt.fetched.val) :
         /\ DOMAIN yt.fetched.val[i] = {"text"}
         /\ yt.fetched.val[i].text = NonBlankLines(SplitLines(Strip(out)))[i]
         /\ \A k \in 1..Len(yt.fetched.val[i].text) : yt.fetched.val[i].text[k] # NL
         /\ \E k \in 1..Len(yt.fetched.val[i].text) : ~IsSpace(yt.fetched.val[i].text[k])
    /\ SelectSeq(JoinSpace(EntryTexts(yt.fetched.val)), LAMBDA ch : ~IsSpace(ch))
         = SelectSeq(out, LAMBDA ch : ~IsSpace(ch))

\* C2 (as stated): with no 'en' track but a generated track in a listed
\* language, load always invokes the translator exactly once with the prefixed
\* prompt and returns a transcript built from the non-blank output lines.
C2_Original ==
    HasTranslatable =>
        /\ YtCount("generate_content") = 1
        /\ yt.result.kind = "return"
        /\ \E f \in YtCalls("fetch"), g \in YtCalls("generate_content") :
             /\ f.out.ok /\ g.out.ok
             /\ g.arg = PromptPrefix \o JoinSpace(EntryTexts(f.out.segs))
             /\ BuiltFromLines(g.out.text)

\* C2 (amended): with no 'en' track but a generated track in a listed
\* language, exactly one generated track is fetched; if that fetch succeeds
\* the translator is invoked exactly once, with the prefix followed by the
\* joined source texts, otherwise never; when the translator answers with at
\* least one non-blank line load returns those lines as text-only segments,
\* joined with single spaces; in every other case load raises
\* TranscriptionError("No transcript available").
C2_Translated ==
    HasTranslatable =>
        /\ YtCount("fetch") = 1
        /\ \A f \in YtCalls("fetch") :
             /\ f.arg.is_generated /\ f.arg.language_code \in TranslatableLanguages
             /\ f.arg \in ListedTracks
             /\ IF f.out.ok
                  THEN /\ YtCount("generate_content") = 1
                       /\ \A g \in YtCalls("generate_content") :
                            /\ g.arg = PromptPrefix \o JoinSpace(EntryTexts(f.out.segs))
                            /\ IF g.out.ok /\ \E k \in 1..Len(g.out.text) :
                                                  ~IsSpace(g.out.text[k])
                                 THEN /\ BuiltFromLines(g.out.text)
                                      /\ yt.result = Return([transcript |->
                                           JoinSpace(EntryTexts(yt.fetched.val))])
                                 ELSE yt.result = NoTranscript
                  ELSE /\ YtCount("generate_content") = 0
                       /\ yt.result = NoTranscript

C2_Witness ==
    /\ HasTranslatable
    /\ \E f \in YtCalls("fetch") : f.out.ok /\ Len(f.out.segs) = 2
    /\ \E g \in YtCalls("generate_content") : g.out.ok /\ g.out.text = <<"a", NL, "a">>
    /\ yt.result = Return([transcript |-> <<"a", SP, "a">>])

\* some step after the identifier extraction failed
StepFailed ==
    \/ \E i \in 2..Len(yt.calls) : ~yt.calls[i].out.ok
    \/ Listed /\ YtCount("fetch") = 0

\* C3: once an identifier was extracted, the only exception load raises is
\* TranscriptionError("No transcript available"), and every failure of a
\* later step (listing, candidate search, fetch, translation) leaves the
\* fetch routine with None and makes load raise exactly that.
C3_FailSoft ==
    IdExtracted =>
        /\ yt.result.kind = "raise" => yt.result = NoTranscript
        /\ StepFailed => yt.fetched = None /\ yt.result = NoTranscript

C3_Witness ==
    /\ IdExtracted
    /\ \E g \in YtCalls("generate_content") : ~g.out.ok
    /\ yt.fetched = None
    /\ yt.result = NoTranscript

\* C4: when no identifier is extracted (the extractor raises or yields
\* nothing) load raises DocumentLoaderError("Invalid YouTube URL") and the
\* listing, the fetch and the translator are never called.
C4_InvalidUrl ==
    (YtDone /\ ~IdExtracted) =>
        /\ yt.result = Raise("DocumentLoaderError", InvalidYoutubeMsg)
        /\ YtCount("list_transcripts") = 0
        /\ YtCount("fetch") = 0
        /\ YtCount("generate_content") = 0

C4_Witness ==
    /\ YtDone
    /\ yt.calls[1].out.ok /\ yt.calls[1].out.id = <<>>
    /\ yt.result.kind = "raise" /\ yt.result.type = "DocumentLoaderError"

StepRank(op) ==
    CASE op = "video_id" -> 1
      [] op = "list_transcripts" -> 2
      [] op = "fetch" -> 3
      [] op = "generate_content" -> 4

\* C8: the external steps of one load occur in the order extraction,
\* listing, fetch, translation, each at most once; the translator is called
\* only right after a successful fetch of a generated track; nothing is
\* called after a step that failed.
C8_StepOrder ==
    YtDone =>
        /\ yt.calls[1].op = "video_id"
        /\ \A i, j \in 1..Len(yt.calls) :
             i < j => StepRank(yt.calls[i].op) < StepRank(yt.calls[j].op)
        /\ \A i \in 1..Len(yt.calls) :
             yt.calls[i].op = "generate_content" =>
                /\ i > 1
                /\ yt.calls[i - 1].op = "fetch"
                /\ yt.calls[i - 1].arg.is_generated
                /\ yt.calls[i - 1].out.ok
        /\ \A i \in 1..(Len(yt.calls) - 1) : yt.calls[i].out.ok

C8_Witness ==
    /\ YtDone
    /\ [i \in 1..Len(yt.calls) |-> yt.calls[i].op]
         = <<"video_id", "list_transcripts", "fetch", "generate_content">>
    /\ yt.result.kind = "return"

NoCandidate ==
    /\ Listed
    /\ \A t \in ListedTracks :
         /\ t.language_code # "en"
         /\ ~(t.is_generated /\ t.language_code \in TranslatableLanguages)

\* C9: with no 'en' track and no generated track in a listed language (a
\* manually created 'ja' track does not count), load raises
\* TranscriptionError("No transcript available") and the translator is never
\* invoked.
C9_GeneratedOnly ==
    NoCandidate =>
        /\ yt.result = NoTranscript
        /\ YtCount("generate_content") = 0
        /\ YtCount("fetch") = 0

C9_Witness ==
    /\ NoCandidate
    /\ [language_code |-> "ja", is_generated |-> FALSE] \in ListedTracks
    /\ yt.result = NoTranscript

\* C10: a result is returned only for a non-empty segment sequence: an 'en'
\* track fetching zero segments, or a translation whose output has no
\* non-blank line, makes load raise TranscriptionError instead.
C10_NonEmpty ==
    YtDone =>
        /\ yt.result.kind = "return" => yt.fetched.some /\ Len(yt.fetched.val) >= 1
        /\ \A f \in YtCalls("fetch") :
             (f.arg.language_code = "en" /\ f.out.ok /\ f.out.segs = <<>>)
                => yt.result = NoTranscript
        /\ \A g \in YtCalls("generate_content") :
             (g.out.ok /\ \A k \in 1..Len(g.out.text) : IsSpace(g.out.text[k]))
                => yt.result = NoTranscript

C10_Witness ==
    /\ YtDone
    /\ \E g \in YtCalls("generate_content") : g.out.ok /\ g.out.text = <<SP, NL, SP>>
    /\ yt.fetched = Some(<<>>)
    /\ yt.result = NoTranscript
(* ================= properties: web, audio, text loaders =============== *)
HasHttpScheme(url) == StartsWith(url, Http) \/ StartsWith(url, Https)
InvalidUrl == Raise("DocumentLoaderError", InvalidUrlMsg)
WebStarts == web = Idle /\ web' # Idle
WebOps == {web.calls[i].op : i \in 1..Len(web.calls)}

\* C5: a load of a URL that starts with neither 'http://' nor 'https://'
\* raises DocumentLoaderError("Invalid URL format") without any external
\* call (no fetch, no open, no write) and leaves output.txt as it was.
C5_InvalidScheme ==
    [][(WebStarts /\ ~HasHttpScheme(web'.url)) =>
            /\ web'.result = InvalidUrl
            /\ web'.calls = <<>>
            /\ sink' = sink]_vars

C5_Witness ==
    /\ web.state = "done"
    /\ web.url = <<"h", "t", "t", "p", ":", "/">>
    /\ web.result = InvalidUrl
    /\ sink = <<"a", NL, NL>>

\* C6 (as stated): after any sequence of loads the sink holds exactly the
\* stripped content of the most recent successful load and two newlines.
C6_Original == lastContent.some => sink = lastContent.val \o <<NL, NL>>

\* C6 (amended): a successful load leaves the sink holding exactly its own
\* stripped content followed by two newlines (overwrite, never append); a
\* load that does not get to open the sink leaves it unchanged; a load that
\* fails after opening the sink leaves only a prefix of its own output.
C6_Overwrite ==
    [][WebStarts =>
            /\ web'.result.kind = "return" =>
                  /\ sink' = web'.result.value.content \o <<NL, NL>>
                  /\ lastContent' = Some(web'.result.value.content)
            /\ (\A i \in 1..Len(web'.calls) :
                    web'.calls[i].op = "open" => ~web'.calls[i].out.ok)
                  => sink' = sink /\ web'.result.kind = "raise"
            /\ \A i \in 1..Len(web'.calls) :
                  (web'.calls[i].op = "write" /\ ~web'.calls[i].out.ok) =>
                      /\ Len(sink') <= Len(web'.calls[i].arg)
                      /\ sink' = SubSeq(web'.calls[i].arg, 1, Len(sink'))]_vars

C6_Witness ==
    /\ web.state = "done"
    /\ web.result = Return([content |-> <<"a", SP, "a">>])
    /\ sink = <<"a", SP, "a", NL, NL>>
    /\ lastContent = Some(<<"a", SP, "a">>)

\* the message of the failure a load met: the failing collaborator's own
\* message, or IndexError's when docs[0] does not exist
CauseOf(calls) ==
    IF calls[Len(calls)].out.ok THEN IndexErrorMsg ELSE calls[Len(calls)].out.msg
Wrapped(prefix, calls) == Raise("DocumentLoaderError", <<prefix>> \o CauseOf(calls))

\* C7: AudioLoader.load, TextDocumentLoader.load and WebpageLoader.load
\* either return their result shape or raise DocumentLoaderError; a failure
\* of the underlying call (no unit produced, parse, fetch, open or write
\* failure) is raised as DocumentLoaderError with the original message
\* after the loader's prefix.
C7_Wrapped ==
    /\ audio.state = "done" =>
         IF audio.calls[1].out.ok /\ audio.calls[1].out.docs # <<>>
           THEN /\ audio.result.kind = "return"
                /\ DOMAIN audio.result.value = {"text", "metadata"}
           ELSE audio.result = Wrapped("Error transcribing audio: ", audio.calls)
    /\ text.state = "done" =>
         IF text.calls[1].out.ok
           THEN /\ text.result.kind = "return"
                /\ DOMAIN text.result.value =
                     IF EndsWith(text.path, PdfSuffix)
                       THEN {"pages", "page_count"} ELSE {"content"}
           ELSE text.result = Wrapped("Error loading document: ", text.calls)
    /\ web.state = "done" =>
         IF web.result.kind = "return"
           THEN /\ DOMAIN web.result.value = {"content"}
                /\ \A i \in 1..Len(web.calls) : web.calls[i].out.ok
                /\ WebOps = {"WebBaseLoader.load", "open", "write"}
           ELSE IF web.calls = <<>>
           THEN web.result = InvalidUrl
           ELSE web.result = Wrapped("Error loading webpage: ", web.calls)

C7_Witness ==
    /\ audio.state = "done"
    /\ audio.calls[1].out.ok /\ audio.calls[1].out.docs = <<>>
    /\ audio.result = Raise("DocumentLoaderError",
                            <<"Error transcribing audio: ", "list index out of range">>)
====
